---- MODULE Spec2Model ----
(***************************************************************************)
(* RAG evaluation pipeline of ragas-evaluation.py: RagasEvaluator and      *)
(* main().                                                                 *)
(*                                                                         *)
(* Data representation                                                     *)
(*   - a Python str is a run-length encoded character sequence, a sequence *)
(*     of runs <<c, n>> (character c repeated n times), so that documents  *)
(*     longer than the 500-character normalisation constant are in reach;  *)
(*   - a float score is an integer number of thousandths (0.333 is 333);   *)
(*     an unrounded quotient is a pair <<num, den>>;                       *)
(*   - a dict is a function whose DOMAIN is its key set; dict.get is Get.  *)
(***************************************************************************)
EXTENDS Integers, Sequences, FiniteSets, TLC

VARIABLES
    inputFile,        \* content of rag-test-results.json (or its absence)
    RAGAS_AVAILABLE,  \* module global set by the import at load time
    results,          \* self.results
    evaluations,      \* self.evaluations
    pc,               \* position of main() / of the caller
    ragas_results,    \* main: value returned by evaluate_all
    aggregate,        \* main: local `aggregate`
    printed,          \* the aggregate print_summary rendered
    jsonFile,         \* content of ragas-evaluation-results.json
    csvFile,          \* content of ragas-evaluation-results.csv
    error,            \* exception that left main(), "" when none
    clock,            \* datetime.now()
    evaluateCalls,    \* number of calls of ragas.evaluate in this run
    fallbackCalls,    \* number of _fallback_evaluation runs on this evaluator
    extOutcome,       \* what ragas.evaluate did in this run
    calls,            \* number of method calls made by the caller
    run,              \* 1 in the first process run, 2 in the second
    prevRun           \* what the first run left behind

vars == <<inputFile, RAGAS_AVAILABLE, results, evaluations, pc, ragas_results,
          aggregate, printed, jsonFile, csvFile, error, clock, evaluateCalls,
          fallbackCalls, extOutcome, calls, run, prevRun>>

----------------------------------------------------------------------------
(* Bounds of the model *)

MaxRecords == 3      \* records in the input file
MaxDocs == 2         \* freely chosen documents of one scored record
LongRun == 600       \* length of the long character run of a document
ManyDocs == 11       \* documents of a context that repeats one document
MaxCalls == 3        \* method calls made on one evaluator

----------------------------------------------------------------------------
(* Python helpers *)

Range(s) == {s[i] : i \in 1..Len(s)}

Get(d, k, default) == IF k \in DOMAIN d THEN d[k] ELSE default

EmptyDict == [k \in {} |-> 0]

Chars == {"a", "B", " "}

LowerChar(c) == IF c = "B" THEN "b" ELSE c

Lower(t) == [i \in 1..Len(t) |-> <<LowerChar(t[i][1]), t[i][2]>>]

RECURSIVE StrLen(_)
StrLen(t) == IF Len(t) = 0 THEN 0 ELSE Head(t)[2] + StrLen(Tail(t))

\* appending a run to a word keeps the run-length encoding canonical
AddRun(w, r) ==
    IF Len(w) > 0 /\ w[Len(w)][1] = r[1]
    THEN [w EXCEPT ![Len(w)] = <<r[1], w[Len(w)][2] + r[2]>>]
    ELSE Append(w, r)

RECURSIVE SplitFrom(_, _)
SplitFrom(t, cur) ==
    IF Len(t) = 0 THEN (IF Len(cur) = 0 THEN <<>> ELSE <<cur>>)
    ELSE IF Head(t)[1] = " "
         THEN (IF Len(cur) = 0 THEN <<>> ELSE <<cur>>) \o SplitFrom(Tail(t), <<>>)
         ELSE SplitFrom(Tail(t), AddRun(cur, Head(t)))

Split(t) == SplitFrom(t, <<>>)

RECURSIVE Join(_, _)
Join(sep, list) ==
    IF Len(list) = 0 THEN <<>>
    ELSE IF Len(list) = 1 THEN Head(list)
    ELSE Head(list) \o sep \o Join(sep, Tail(list))

Space == << <<" ", 1>> >>

RECURSIVE Sum(_)
Sum(s) == IF Len(s) = 0 THEN 0 ELSE Head(s) + Sum(Tail(s))

\* statistics.mean of a list of numbers, as an unrounded quotient
Mean(s) == <<Sum(s), Len(s)>>

\* min(q, 1.0)
MinOne(q) == IF q[1] > q[2] THEN <<1, 1>> ELSE q

\* round(n / d) to the nearest integer, ties to even.  Python's round() of a
\* binary float resolves a decimal tie by the float's binary expansion, so at
\* a tie the code may return either neighbour; the properties below rely
\* only on the result being a nearest value.
RoundHalfEven(n, d) ==
    LET f == n \div d
        r == n % d
    IN  IF 2 * r < d THEN f
        ELSE IF 2 * r > d THEN f + 1
        ELSE IF f % 2 = 0 THEN f ELSE f + 1

\* round(q, 3), in thousandths
Round3(q) == RoundHalfEven(1000 * q[1], q[2])

\* round(statistics.mean(scores), 3) of scores given in thousandths
RoundMean3(scores) == RoundHalfEven(Sum(scores), Len(scores))

----------------------------------------------------------------------------
(* Heuristic scorer *)

_calculate_faithfulness_heuristic(response, context) ==
    IF Len(context) = 0 \/ Len(response) = 0 THEN 0
    ELSE LET response_words == Range(Split(Lower(response)))
             context_text == Lower(Join(Space, context))
             context_words == Range(Split(context_text))
             overlap == Cardinality(response_words \cap context_words)
             total == Cardinality(response_words)
         IN  Round3(MinOne(IF total > 0 THEN <<overlap, total>> ELSE <<0, 1>>))

_calculate_relevancy_heuristic(query, response) ==
    IF Len(query) = 0 \/ Len(response) = 0 THEN 0
    ELSE LET query_words == Range(Split(Lower(query)))
             response_words == Range(Split(Lower(response)))
             overlap == Cardinality(query_words \cap response_words)
             total == Cardinality(query_words)
         IN  Round3(MinOne(IF total > 0 THEN <<overlap, total>> ELSE <<0, 1>>))

_calculate_precision_heuristic(context) ==
    IF Len(context) = 0 THEN 0
    ELSE LET avg_length == Mean([i \in 1..Len(context) |-> StrLen(context[i])])
         IN  Round3(MinOne(<<avg_length[1], avg_length[2] * 500>>))

\* variant: the cap at 1.0 is left out
_calculate_recall_heuristic_Uncapped(context) ==
    IF Len(context) = 0 THEN 0
    ELSE Round3(<<Len(context), 10>>)

_calculate_recall_heuristic(context) ==
    IF Len(context) = 0 THEN 0
    ELSE Round3(MinOne(<<Len(context), 10>>))

MetricNames == <<"faithfulness", "answer_relevancy", "context_precision",
                 "context_recall">>

_evaluate_result_heuristic(result) ==
    LET query == Get(result, "query", <<>>)
        response == Get(result, "generated_response", <<>>)
        context == Get(result, "retrieved_documents", <<>>)
        metadata == Get(result, "metadata", EmptyDict)
        metrics == [faithfulness |-> _calculate_faithfulness_heuristic(response, context),
                    answer_relevancy |-> _calculate_relevancy_heuristic(query, response),
                    context_precision |-> _calculate_precision_heuristic(context),
                    context_recall |-> _calculate_recall_heuristic(context)]
        scores == [i \in 1..4 |-> metrics[MetricNames[i]]]
    IN  [query |-> query,
         metrics |-> metrics,
         metadata |-> [user_role |-> Get(metadata, "userRole", "unknown"),
                       processing_time_ms |-> Get(metadata, "processingTimeMs", 0),
                       source_count |-> Get(metadata, "sourceCount", 0),
                       session_id |-> Get(metadata, "sessionId", ""),
                       timestamp |-> Get(metadata, "timestamp", "")],
         overall_score |-> RoundMean3(scores)]

----------------------------------------------------------------------------
(* Aggregation *)

\* variant: the count of a new role starts at 1 and is incremented as well
NewRoleEntry_CountFromOne ==
    [count |-> 1, faithfulness |-> <<>>, answer_relevancy |-> <<>>,
     context_precision |-> <<>>, context_recall |-> <<>>, overall |-> <<>>]

\* lines 247-254: the entry created for a role seen for the first time
NewRoleEntry ==
    [count |-> 0, faithfulness |-> <<>>, answer_relevancy |-> <<>>,
     context_precision |-> <<>>, context_recall |-> <<>>, overall |-> <<>>]

\* variant: the role's faithfulness list receives the overall score
AddToRole_WrongList(entry, eval_result) ==
    [count |-> entry.count + 1,
     faithfulness |-> Append(entry.faithfulness, eval_result.overall_score),
     answer_relevancy |-> Append(entry.answer_relevancy, eval_result.metrics.answer_relevancy),
     context_precision |-> Append(entry.context_precision, eval_result.metrics.context_precision),
     context_recall |-> Append(entry.context_recall, eval_result.metrics.context_recall),
     overall |-> Append(entry.overall, eval_result.overall_score)]

\* lines 256-269: one evaluation added to its role's entry
AddToRole(entry, eval_result) ==
    [count |-> entry.count + 1,
     faithfulness |-> Append(entry.faithfulness, eval_result.metrics.faithfulness),
     answer_relevancy |-> Append(entry.answer_relevancy, eval_result.metrics.answer_relevancy),
     context_precision |-> Append(entry.context_precision, eval_result.metrics.context_precision),
     context_recall |-> Append(entry.context_recall, eval_result.metrics.context_recall),
     overall |-> Append(entry.overall, eval_result.overall_score)]

\* lines 271-281: one evaluation added to the role-blind lists
AddToAll(all_scores, eval_result) ==
    [faithfulness |-> Append(all_scores.faithfulness, eval_result.metrics.faithfulness),
     answer_relevancy |-> Append(all_scores.answer_relevancy, eval_result.metrics.answer_relevancy),
     context_precision |-> Append(all_scores.context_precision, eval_result.metrics.context_precision),
     context_recall |-> Append(all_scores.context_recall, eval_result.metrics.context_recall),
     overall |-> Append(all_scores.overall, eval_result.overall_score)]

\* lines 243-281: the accumulation loop over self.evaluations
RECURSIVE Accumulate(_, _, _)
Accumulate(evals, metrics_by_role, all_scores) ==
    IF Len(evals) = 0
    THEN [metrics_by_role |-> metrics_by_role, all_scores |-> all_scores]
    ELSE LET eval_result == Head(evals)
             role == eval_result.metadata.user_role
             known == DOMAIN metrics_by_role
             withRole == [r \in known \cup {role} |->
                             IF r \in known THEN metrics_by_role[r] ELSE NewRoleEntry]
         IN  Accumulate(Tail(evals),
                        [withRole EXCEPT ![role] = AddToRole(@, eval_result)],
                        AddToAll(all_scores, eval_result))

\* lines 287-301 and 306-319: the rounded means of one group of lists
Averages(lists) ==
    [faithfulness |-> RoundMean3(lists.faithfulness),
     answer_relevancy |-> RoundMean3(lists.answer_relevancy),
     context_precision |-> RoundMean3(lists.context_precision),
     context_recall |-> RoundMean3(lists.context_recall),
     overall_score |-> RoundMean3(lists.overall)]

\* lines 306-319
ByRoleEntry(metrics) ==
    LET avg == Averages(metrics)
    IN  [count |-> metrics.count,
         faithfulness |-> avg.faithfulness,
         answer_relevancy |-> avg.answer_relevancy,
         context_precision |-> avg.context_precision,
         context_recall |-> avg.context_recall,
         overall_score |-> avg.overall_score]

\* lines 231-232: the value returned when self.evaluations is empty
EmptyAggregate == EmptyDict

calculate_aggregate_metrics(evals, now) ==
    IF Len(evals) = 0 THEN EmptyAggregate
    ELSE LET acc == Accumulate(evals, EmptyDict,
                               [faithfulness |-> <<>>, answer_relevancy |-> <<>>,
                                context_precision |-> <<>>, context_recall |-> <<>>,
                                overall |-> <<>>])
         IN  [total_evaluations |-> Len(evals),
              timestamp |-> now,
              overall_metrics |-> Averages(acc.all_scores),
              by_role |-> [role \in DOMAIN acc.metrics_by_role |->
                              ByRoleEntry(acc.metrics_by_role[role])]]

----------------------------------------------------------------------------
(* Python values that cross the external boundary *)

Unset == [type |-> "unset"]
None == [type |-> "NoneType"]
Dict(items) == [type |-> "dict", items |-> items]
Float(num, den) == [type |-> "float", val |-> <<num, den>>]

\* bool(v)
Truthy(v) ==
    CASE v.type = "NoneType" -> FALSE
      [] v.type = "dict" -> DOMAIN v.items # {}
      [] OTHER -> TRUE

IsDict(v) == v.type = "dict"

IsNumber(v) == v.type \in {"int", "float"}

process_ragas_results(ragas) ==
    IF ~Truthy(ragas) THEN EmptyDict
    ELSE LET numeric == {m \in DOMAIN ragas.items : IsNumber(ragas.items[m])}
         IN  [overall_metrics |-> [m \in numeric |-> Round3(ragas.items[m].val)],
              by_role |-> EmptyDict,
              raw_results |-> ragas]

\* lines 119-121: the scoring loop appends to self.evaluations
RECURSIVE ScoreInto(_, _)
ScoreInto(evals, res) ==
    IF Len(res) = 0 THEN evals
    ELSE ScoreInto(Append(evals, _evaluate_result_heuristic(Head(res))), Tail(res))

\* variant: line 118 is missing, the loop appends to the old list
_fallback_evaluation_NoReset(old, res) == ScoreInto(old, res)

\* the new self.evaluations; `old` is its value on entry, dropped by line 118
_fallback_evaluation(old, res) == ScoreInto(<<>>, res)

prepare_dataset(res) ==
    IF ~RAGAS_AVAILABLE THEN None
    ELSE [type |-> "Dataset",
          data |-> [query |-> [i \in 1..Len(res) |-> Get(res[i], "query", <<>>)],
                    generated_response |->
                        [i \in 1..Len(res) |-> Get(res[i], "generated_response", <<>>)],
                    retrieved_documents |->
                        [i \in 1..Len(res) |-> Get(res[i], "retrieved_documents", <<>>)]]]

CsvHeader ==
    <<"Query", "User Role", "Faithfulness", "Answer Relevancy", "Context Precision",
      "Context Recall", "Overall Score", "Processing Time (ms)", "Source Count",
      "Timestamp">>

CsvRow(eval_result) ==
    <<eval_result.query, eval_result.metadata.user_role,
      eval_result.metrics.faithfulness, eval_result.metrics.answer_relevancy,
      eval_result.metrics.context_precision, eval_result.metrics.context_recall,
      eval_result.overall_score, eval_result.metadata.processing_time_ms,
      eval_result.metadata.source_count, eval_result.metadata.timestamp>>

\* number of datetime.now() readings of one calculate_aggregate_metrics call
AggregateTicks(evals) == IF Len(evals) = 0 THEN 0 ELSE 1

\* print_summary subscripts these keys; a missing one raises KeyError
SummaryKeys == {"total_evaluations", "timestamp", "overall_metrics", "by_role"}

OverallKeys == {"faithfulness", "answer_relevancy", "context_precision",
                "context_recall", "overall_score"}

PrintSummaryRaises(agg) ==
    \/ ~(SummaryKeys \subseteq DOMAIN agg)
    \/ ~(OverallKeys \subseteq DOMAIN agg.overall_metrics)
    \/ \E role \in DOMAIN agg.by_role :
          ~((OverallKeys \cup {"count"}) \subseteq DOMAIN agg.by_role[role])

----------------------------------------------------------------------------
(* Inputs *)

\* the str whose characters are the elements of s
Str(s) == [i \in 1..Len(s) |-> <<s[i], 1>>]

Restrict(d, keys) == [k \in keys |-> d[k]]

\* "", " ", "a", "B", "a B", "a a", "aB", "a B aB"
Texts ==
    {Str(<<>>), Str(<<" ">>), Str(<<"a">>), Str(<<"B">>), Str(<<"a", " ", "B">>),
     Str(<<"a", " ", "a">>), Str(<<"a", "B">>),
     Str(<<"a", " ", "B", " ", "a", "B">>)}

\* "", "a", "B a", " aB ", and "a" repeated LongRun times
Docs ==
    {Str(<<>>), Str(<<"a">>), Str(<<"B", " ", "a">>), Str(<<" ", "a", "B", " ">>),
     << <<"a", LongRun>> >>}

Contexts ==
    UNION {[1..n -> Docs] : n \in 0..MaxDocs}
        \cup {[i \in 1..ManyDocs |-> d] : d \in Docs}

FullMetadata ==
    [userRole |-> "user", processingTimeMs |-> 120, sourceCount |-> 2,
     sessionId |-> "s1", timestamp |-> "t1"]

Metadatas == {EmptyDict, [userRole |-> "admin"], FullMetadata}

\* the records of the input file
AdminRecord1 ==
    [query |-> Str(<<"a", " ", "B">>), generated_response |-> Str(<<"a">>),
     retrieved_documents |-> <<Str(<<"B", " ", "a">>)>>,
     metadata |-> [userRole |-> "admin"]]

AdminRecord2 ==
    [query |-> Str(<<"a">>), generated_response |-> Str(<<"a", " ", "B", " ", "a", "B">>),
     retrieved_documents |-> <<Str(<<"a">>)>>,
     metadata |-> [userRole |-> "admin"]]

UserRecord ==
    [query |-> Str(<<"B">>), generated_response |-> Str(<<"a", " ", "B">>),
     retrieved_documents |-> << << <<"a", LongRun>> >>, Str(<<"a">>) >>,
     metadata |-> FullMetadata]

NoRoleRecord ==
    [query |-> Str(<<"a">>), generated_response |-> Str(<<"a">>),
     retrieved_documents |-> <<Str(<<"a">>)>>,
     metadata |-> EmptyDict]

UnknownRoleRecord ==
    [query |-> Str(<<"a">>), generated_response |-> Str(<<>>),
     retrieved_documents |-> <<Str(<<"a">>)>>,
     metadata |-> [userRole |-> "unknown"]]

EmptyRecord == EmptyDict

SampleRecords ==
    {AdminRecord1, AdminRecord2, UserRecord, NoRoleRecord, UnknownRoleRecord,
     EmptyRecord}

\* the records of the evaluator whose methods are called directly
ApiRecords == {AdminRecord1, NoRoleRecord}

\* the records given to the scorer alone
ScoredRecords ==
    {[query |-> q, generated_response |-> r, retrieved_documents |-> c, metadata |-> m] :
        q \in Texts, r \in Texts, c \in Contexts, m \in Metadatas}
    \cup {Restrict(rec, keys) : rec \in SampleRecords \ {EmptyRecord},
                                keys \in SUBSET {"query", "generated_response",
                                                 "retrieved_documents", "metadata"}}

RecordLists == UNION {[1..n -> SampleRecords] : n \in 0..MaxRecords}

ApiRecordLists == UNION {[1..n -> ApiRecords] : n \in 0..MaxRecords}

\* rag-test-results.json: missing, without a "results" key, or with one
InputFiles ==
    {[exists |-> FALSE], [exists |-> TRUE, data |-> EmptyDict]}
        \cup {[exists |-> TRUE, data |-> [results |-> l]] : l \in RecordLists}

\* what ragas.evaluate can hand back when it does not raise
ExternalValues ==
    {None,
     [type |-> "EvaluationResult"],
     Dict(EmptyDict),
     Dict([faithfulness |-> Float(9123, 10000), answer_relevancy |-> Float(4, 5),
           answer_correctness |-> Float(7005, 10000),
           context_precision |-> Float(1, 3), context_recall |-> Float(1, 1)]),
     Dict([faithfulness |-> Float(1, 2), answer_relevancy |-> [type |-> "str"]])}

----------------------------------------------------------------------------
(* Methods of RagasEvaluator; ragas_results receives evaluate_all's result *)

Terminated == pc \in {"done", "raised", "exited"}

\* lines 74-76
evaluate_all_Unavailable ==
    /\ ~RAGAS_AVAILABLE
    /\ evaluations' = _fallback_evaluation(evaluations, results)
    /\ fallbackCalls' = fallbackCalls + 1
    /\ ragas_results' = Dict([evaluations |-> evaluations'])
    /\ UNCHANGED <<evaluateCalls, extOutcome>>

\* lines 78-107: ragas.evaluate returns value
evaluate_all_Returned(value) ==
    /\ RAGAS_AVAILABLE
    /\ prepare_dataset(results) # None
    /\ evaluateCalls' = evaluateCalls + 1
    /\ extOutcome' = [kind |-> "returned", value |-> value]
    /\ ragas_results' = value
    /\ UNCHANGED <<evaluations, fallbackCalls>>

\* variant: the except branch returns an empty result without scoring
evaluate_all_Raised_NoFallback ==
    /\ RAGAS_AVAILABLE
    /\ prepare_dataset(results) # None
    /\ evaluateCalls' = evaluateCalls + 1
    /\ extOutcome' = [kind |-> "raised"]
    /\ ragas_results' = Dict(EmptyDict)
    /\ UNCHANGED <<evaluations, fallbackCalls>>

\* variant: the except branch calls ragas.evaluate a second time before
\* falling back
evaluate_all_Raised_Retry ==
    /\ RAGAS_AVAILABLE
    /\ prepare_dataset(results) # None
    /\ evaluateCalls' = evaluateCalls + 2
    /\ extOutcome' = [kind |-> "raised"]
    /\ evaluations' = _fallback_evaluation(evaluations, results)
    /\ fallbackCalls' = fallbackCalls + 1
    /\ ragas_results' = Dict([evaluations |-> evaluations'])

\* lines 78-104 and 109-112: ragas.evaluate (or awaiting its result) raises
evaluate_all_Raised ==
    /\ RAGAS_AVAILABLE
    /\ prepare_dataset(results) # None
    /\ evaluateCalls' = evaluateCalls + 1
    /\ extOutcome' = [kind |-> "raised"]
    /\ evaluations' = _fallback_evaluation(evaluations, results)
    /\ fallbackCalls' = fallbackCalls + 1
    /\ ragas_results' = Dict([evaluations |-> evaluations'])

\* export_results, lines 352-369
ExportedJson(evals, now) ==
    Dict([evaluations |-> evals,
          aggregate_metrics |-> calculate_aggregate_metrics(evals, now),
          metadata |-> [framework |-> "Ragas",
                        evaluation_date |-> now + AggregateTicks(evals),
                        source_file |-> "rag-test-results.json",
                        total_results_evaluated |-> Len(evals)]])

\* export_csv, lines 371-412
ExportedCsv(evals) == <<CsvHeader>> \o [i \in 1..Len(evals) |-> CsvRow(evals[i])]

----------------------------------------------------------------------------
(* main() *)

NoFile == [type |-> "absent"]

Init ==
    /\ inputFile \in InputFiles
    /\ RAGAS_AVAILABLE \in BOOLEAN
    /\ results = <<>>
    /\ evaluations = <<>>
    /\ pc = "start"
    /\ ragas_results = Unset
    /\ aggregate = Unset
    /\ printed = Unset
    /\ jsonFile = NoFile
    /\ csvFile = NoFile
    /\ error = ""
    /\ clock = 0
    /\ evaluateCalls = 0
    /\ fallbackCalls = 0
    /\ extOutcome = [kind |-> "none"]
    /\ calls = 0
    /\ run = 1
    /\ prevRun = Unset

\* line 420: RagasEvaluator(...), __init__ and load_results (lines 36-51)
Main_Construct ==
    /\ pc = "start"
    /\ IF inputFile.exists
       THEN /\ results' = Get(inputFile.data, "results", <<>>)
            /\ pc' = "evaluate_all"
            /\ error' = error
       ELSE /\ error' = "FileNotFoundError"
            /\ pc' = "raised"
            /\ results' = results
    /\ evaluations' = <<>>
    /\ UNCHANGED <<inputFile, RAGAS_AVAILABLE, ragas_results, aggregate, printed,
                   jsonFile, csvFile, clock, evaluateCalls, fallbackCalls,
                   extOutcome, calls, run, prevRun>>

MainFrame ==
    UNCHANGED <<inputFile, RAGAS_AVAILABLE, results, calls, run, prevRun>>

\* line 423
Main_EvaluateAll_Unavailable ==
    /\ pc = "evaluate_all"
    /\ evaluate_all_Unavailable
    /\ pc' = "process"
    /\ MainFrame
    /\ UNCHANGED <<aggregate, printed, jsonFile, csvFile, error, clock>>

Main_EvaluateAll_Returned ==
    /\ pc = "evaluate_all"
    /\ \E value \in ExternalValues : evaluate_all_Returned(value)
    /\ pc' = "process"
    /\ MainFrame
    /\ UNCHANGED <<aggregate, printed, jsonFile, csvFile, error, clock>>

Main_EvaluateAll_Raised ==
    /\ pc = "evaluate_all"
    /\ evaluate_all_Raised
    /\ pc' = "process"
    /\ MainFrame
    /\ UNCHANGED <<aggregate, printed, jsonFile, csvFile, error, clock>>

\* lines 426-430: evaluate_all returned the heuristic evaluations
Main_Process_Fallback ==
    /\ pc = "process"
    /\ Truthy(ragas_results) /\ IsDict(ragas_results)
    /\ "evaluations" \in DOMAIN ragas_results.items
    /\ evaluations' = ragas_results.items.evaluations
    /\ aggregate' = Dict(calculate_aggregate_metrics(evaluations', clock))
    /\ clock' = clock + AggregateTicks(evaluations')
    /\ pc' = "print_summary"
    /\ MainFrame
    /\ UNCHANGED <<ragas_results, printed, jsonFile, csvFile, error, evaluateCalls,
                   fallbackCalls, extOutcome>>

\* lines 426 and 431-436: evaluate_all returned the library's own result
Main_Process_Ragas ==
    /\ pc = "process"
    /\ Truthy(ragas_results) /\ IsDict(ragas_results)
    /\ "evaluations" \notin DOMAIN ragas_results.items
    /\ LET aggregate_433 == process_ragas_results(ragas_results)
           evaluations_435 == _fallback_evaluation(evaluations, results)
           aggregate_436 == calculate_aggregate_metrics(evaluations_435, clock)
       IN  /\ evaluations' = evaluations_435
           /\ aggregate' = Dict(aggregate_436)
    /\ fallbackCalls' = fallbackCalls + 1
    /\ clock' = clock + AggregateTicks(evaluations')
    /\ pc' = "print_summary"
    /\ MainFrame
    /\ UNCHANGED <<ragas_results, printed, jsonFile, csvFile, error, evaluateCalls,
                   extOutcome>>

\* lines 426 and 437-439
Main_Process_Exit ==
    /\ pc = "process"
    /\ ~(Truthy(ragas_results) /\ IsDict(ragas_results))
    /\ pc' = "exited"
    /\ MainFrame
    /\ UNCHANGED <<evaluations, ragas_results, aggregate, printed, jsonFile, csvFile,
                   error, clock, evaluateCalls, fallbackCalls, extOutcome>>

\* line 442, print_summary (lines 323-350)
Main_PrintSummary ==
    /\ pc = "print_summary"
    /\ IF PrintSummaryRaises(aggregate.items)
       THEN /\ error' = "KeyError"
            /\ pc' = "raised"
            /\ printed' = printed
       ELSE /\ printed' = aggregate
            /\ pc' = "export_results"
            /\ error' = error
    /\ MainFrame
    /\ UNCHANGED <<evaluations, ragas_results, aggregate, jsonFile, csvFile, clock,
                   evaluateCalls, fallbackCalls, extOutcome>>

\* line 445
Main_ExportResults ==
    /\ pc = "export_results"
    /\ jsonFile' = ExportedJson(evaluations, clock)
    /\ clock' = clock + AggregateTicks(evaluations) + 1
    /\ pc' = "export_csv"
    /\ MainFrame
    /\ UNCHANGED <<evaluations, ragas_results, aggregate, printed, csvFile, error,
                   evaluateCalls, fallbackCalls, extOutcome>>

\* lines 446-452
Main_ExportCsv ==
    /\ pc = "export_csv"
    /\ csvFile' = ExportedCsv(evaluations)
    /\ pc' = "done"
    /\ MainFrame
    /\ UNCHANGED <<evaluations, ragas_results, aggregate, printed, jsonFile, error,
                   clock, evaluateCalls, fallbackCalls, extOutcome>>

\* lines 455-466: the script is started a second time on the same input file;
\* the files written by the first run are still there and time has passed
RunAgain ==
    /\ Terminated
    /\ run = 1
    /\ run' = 2
    /\ prevRun' = [RAGAS_AVAILABLE |-> RAGAS_AVAILABLE, extOutcome |-> extOutcome,
                   evaluations |-> evaluations, aggregate |-> aggregate,
                   printed |-> printed, pc |-> pc, error |-> error]
    /\ RAGAS_AVAILABLE' \in BOOLEAN
    /\ results' = <<>>
    /\ evaluations' = <<>>
    /\ pc' = "start"
    /\ ragas_results' = Unset
    /\ aggregate' = Unset
    /\ printed' = Unset
    /\ error' = ""
    /\ clock' = clock + 1
    /\ evaluateCalls' = 0
    /\ fallbackCalls' = 0
    /\ extOutcome' = [kind |-> "none"]
    /\ UNCHANGED <<inputFile, jsonFile, csvFile, calls>>

Next ==
    \/ Main_Construct
    \/ Main_EvaluateAll_Unavailable
    \/ Main_EvaluateAll_Returned
    \/ Main_EvaluateAll_Raised
    \/ Main_Process_Fallback
    \/ Main_Process_Ragas
    \/ Main_Process_Exit
    \/ Main_PrintSummary
    \/ Main_ExportResults
    \/ Main_ExportCsv
    \/ RunAgain

Spec == Init /\ [][Next]_vars

----------------------------------------------------------------------------
(* The methods called directly on one constructed evaluator, in any order *)

InitApi ==
    /\ \E l \in ApiRecordLists :
          /\ inputFile = [exists |-> TRUE, data |-> [results |-> l]]
          /\ results = l
    /\ RAGAS_AVAILABLE \in BOOLEAN
    /\ evaluations = <<>>
    /\ pc = "constructed"
    /\ ragas_results = Unset
    /\ aggregate = Unset
    /\ printed = Unset
    /\ jsonFile = NoFile
    /\ csvFile = NoFile
    /\ error = ""
    /\ clock = 0
    /\ evaluateCalls = 0
    /\ fallbackCalls = 0
    /\ extOutcome = [kind |-> "none"]
    /\ calls = 0
    /\ run = 1
    /\ prevRun = Unset

ApiFrame ==
    /\ calls < MaxCalls
    /\ calls' = calls + 1
    /\ UNCHANGED <<inputFile, RAGAS_AVAILABLE, results, pc, printed, error, run,
                   prevRun>>

Api_evaluate_all_Unavailable ==
    /\ evaluate_all_Unavailable
    /\ ApiFrame
    /\ UNCHANGED <<aggregate, jsonFile, csvFile, clock>>

Api_evaluate_all_Returned ==
    /\ \E value \in ExternalValues : evaluate_all_Returned(value)
    /\ ApiFrame
    /\ UNCHANGED <<aggregate, jsonFile, csvFile, clock>>

Api_evaluate_all_Raised ==
    /\ evaluate_all_Raised
    /\ ApiFrame
    /\ UNCHANGED <<aggregate, jsonFile, csvFile, clock>>

\* lines 114-127
Api_fallback_evaluation ==
    /\ evaluations' = _fallback_evaluation(evaluations, results)
    /\ fallbackCalls' = fallbackCalls + 1
    /\ ApiFrame
    /\ UNCHANGED <<ragas_results, aggregate, jsonFile, csvFile, clock, evaluateCalls,
                   extOutcome>>

\* lines 229-321; aggregate receives the returned report
Api_calculate_aggregate_metrics ==
    /\ aggregate' = Dict(calculate_aggregate_metrics(evaluations, clock))
    /\ clock' = clock + AggregateTicks(evaluations)
    /\ ApiFrame
    /\ UNCHANGED <<evaluations, ragas_results, jsonFile, csvFile, evaluateCalls,
                   fallbackCalls, extOutcome>>

Api_export_results ==
    /\ jsonFile' = ExportedJson(evaluations, clock)
    /\ clock' = clock + AggregateTicks(evaluations) + 1
    /\ ApiFrame
    /\ UNCHANGED <<evaluations, ragas_results, aggregate, csvFile, evaluateCalls,
                   fallbackCalls, extOutcome>>

Api_export_csv ==
    /\ csvFile' = ExportedCsv(evaluations)
    /\ ApiFrame
    /\ UNCHANGED <<evaluations, ragas_results, aggregate, jsonFile, clock,
                   evaluateCalls, fallbackCalls, extOutcome>>

NextApi ==
    \/ Api_evaluate_all_Unavailable
    \/ Api_evaluate_all_Returned
    \/ Api_evaluate_all_Raised
    \/ Api_fallback_evaluation
    \/ Api_calculate_aggregate_metrics
    \/ Api_export_results
    \/ Api_export_csv

SpecApi == InitApi /\ [][NextApi]_vars

----------------------------------------------------------------------------
(* The heuristic scorer alone, on one record *)

InitScore ==
    /\ \E rec \in ScoredRecords :
          /\ inputFile = [exists |-> TRUE, data |-> [results |-> <<rec>>]]
          /\ results = <<rec>>
    /\ RAGAS_AVAILABLE = FALSE
    /\ evaluations = <<>>
    /\ pc = "score"
    /\ ragas_results = Unset
    /\ aggregate = Unset
    /\ printed = Unset
    /\ jsonFile = NoFile
    /\ csvFile = NoFile
    /\ error = ""
    /\ clock = 0
    /\ evaluateCalls = 0
    /\ fallbackCalls = 0
    /\ extOutcome = [kind |-> "none"]
    /\ calls = 0
    /\ run = 1
    /\ prevRun = Unset

\* line 120
Score_evaluate_result_heuristic ==
    /\ pc = "score"
    /\ evaluations' = <<_evaluate_result_heuristic(results[1])>>
    /\ pc' = "scored"
    /\ UNCHANGED <<inputFile, RAGAS_AVAILABLE, results, ragas_results, aggregate,
                   printed, jsonFile, csvFile, error, clock, evaluateCalls,
                   fallbackCalls, extOutcome, calls, run, prevRun>>

NextScore == Score_evaluate_result_heuristic

SpecScore == InitScore /\ [][NextScore]_vars

----------------------------------------------------------------------------
(* Properties *)

Abs(x) == IF x < 0 THEN -x ELSE x

\* q is a thousandth nearest to sum / n thousandths
IsRoundedMean(q, sum, n) == 2 * Abs(n * q - sum) <= n

\* the role a record is grouped under
RoleOf(rec) ==
    IF "metadata" \in DOMAIN rec /\ "userRole" \in DOMAIN rec.metadata
    THEN rec.metadata.userRole
    ELSE "unknown"

RECURSIVE SumFaithfulness(_, _)
SumFaithfulness(evals, idx) ==
    IF idx = {} THEN 0
    ELSE LET i == CHOOSE j \in idx : TRUE
         IN  evals[i].metrics.faithfulness + SumFaithfulness(evals, idx \ {i})

RECURSIVE SumCounts(_, _)
SumCounts(by_role, roles) ==
    IF roles = {} THEN 0
    ELSE LET r == CHOOSE x \in roles : TRUE
         IN  by_role[r].count + SumCounts(by_role, roles \ {r})

\* the external result is a non-empty mapping of metric name to number
Interpretable(value) ==
    /\ IsDict(value)
    /\ DOMAIN value.items # {}
    /\ \A m \in DOMAIN value.items : IsNumber(value.items[m])

ExternalRounded(value) == [m \in DOMAIN value.items |-> Round3(value.items[m].val)]

LoadedRecords == Get(inputFile.data, "results", <<>>)

OnePerRecord ==
    /\ Len(evaluations) = Len(results)
    /\ \A i \in 1..Len(evaluations) :
          evaluations[i].query = Get(results[i], "query", <<>>)

StripTimestamp(agg) ==
    IF agg.type = "dict" /\ "timestamp" \in DOMAIN agg.items
    THEN Dict(Restrict(agg.items, DOMAIN agg.items \ {"timestamp"}))
    ELSE agg

AfterEvaluateAll ==
    \/ pc \in {"process", "print_summary", "export_results", "export_csv", "done",
               "exited"}
    \/ pc = "raised" /\ error = "KeyError"

\* C1: in a finished run whose external call returned a mapping of metric
\* name to number, the report given to print_summary and the aggregate_metrics
\* written by export_results carry the external values, rounded to 3 digits,
\* as overall_metrics, while the evaluations and by_role are heuristic.
C1_ExternalAggregateIsReported ==
    (pc = "done" /\ extOutcome.kind = "returned" /\ Interpretable(extOutcome.value))
    => /\ printed.items.overall_metrics = ExternalRounded(extOutcome.value)
       /\ jsonFile.items.aggregate_metrics.overall_metrics
              = ExternalRounded(extOutcome.value)
       /\ OnePerRecord
       /\ DOMAIN printed.items.by_role = {RoleOf(results[i]) : i \in 1..Len(results)}

\* C2: a run whose external call returned a result that is no mapping of
\* metric name to number ends with one heuristic evaluation per loaded record
\* and an aggregate over them, not with the early exit.
C2_UninterpretableResultFallsBack ==
    (Terminated /\ extOutcome.kind = "returned" /\ ~Interpretable(extOutcome.value))
    => /\ pc # "exited"
       /\ fallbackCalls > 0
       /\ OnePerRecord
       /\ aggregate.type = "dict"

\* C3: of two runs over the same input file, one with the external capability
\* absent and one in which its call raised, both end the same way with the
\* same evaluations and the same aggregate report up to its timestamp.
C3_RaisedRunEqualsAbsentRun ==
    (/\ run = 2
     /\ Terminated
     /\ \/ prevRun.extOutcome.kind = "raised" /\ ~RAGAS_AVAILABLE
        \/ ~prevRun.RAGAS_AVAILABLE /\ extOutcome.kind = "raised")
    => /\ evaluations = prevRun.evaluations
       /\ StripTimestamp(aggregate) = StripTimestamp(prevRun.aggregate)
       /\ StripTimestamp(printed) = StripTimestamp(prevRun.printed)
       /\ pc = prevRun.pc

C3_Witness ==
    /\ run = 2
    /\ pc = "done"
    /\ prevRun.extOutcome.kind = "raised"
    /\ ~RAGAS_AVAILABLE
    /\ Len(evaluations) = 2
    /\ aggregate.items.timestamp # prevRun.aggregate.items.timestamp

\* C4: in every run ragas.evaluate is called at most once: never when the
\* capability is unavailable, and exactly once, whatever its outcome, by the
\* time evaluate_all has returned when it is available.
C4_ExternalCallAtMostOnce ==
    /\ evaluateCalls <= 1
    /\ ~RAGAS_AVAILABLE => evaluateCalls = 0
    /\ pc \in {"start", "evaluate_all"} => evaluateCalls = 0
    /\ (RAGAS_AVAILABLE /\ AfterEvaluateAll) => evaluateCalls = 1
    /\ (~RAGAS_AVAILABLE /\ AfterEvaluateAll) => fallbackCalls = 1

C4_Witness ==
    /\ pc = "done"
    /\ extOutcome.kind = "raised"
    /\ evaluateCalls = 1
    /\ Len(evaluations) > 0

\* C5: calculate_aggregate_metrics on zero evaluations returns a report with
\* total_evaluations = 0 and an empty by_role.
C5_EmptyAggregateIsZeroReport ==
    (aggregate.type = "dict" /\ Len(evaluations) = 0)
    => /\ {"total_evaluations", "by_role"} \subseteq DOMAIN aggregate.items
       /\ aggregate.items.total_evaluations = 0
       /\ DOMAIN aggregate.items.by_role = {}

\* C6: a run over an input file whose results are empty or absent, scored
\* heuristically from the start, completes without raising: print_summary
\* gets a zero-valued report, the JSON export holds no evaluations and the
\* CSV export holds the header row alone.
C6_EmptyInputCompletes ==
    (/\ Terminated
     /\ inputFile.exists
     /\ Len(LoadedRecords) = 0
     /\ extOutcome.kind # "returned")
    => /\ pc = "done"
       /\ error = ""
       /\ printed.type = "dict"
       /\ printed.items.total_evaluations = 0
       /\ jsonFile.items.evaluations = <<>>
       /\ csvFile = <<CsvHeader>>

\* C7: the report over a non-empty list of evaluations has total_evaluations
\* equal to their number, one by_role entry per role occurring among them,
\* every count at least 1, and counts that sum to total_evaluations.
C7_ByRoleCountsPartitionEvaluations ==
    (aggregate.type = "dict" /\ Len(evaluations) > 0)
    => LET report == aggregate.items
           roles == {evaluations[i].metadata.user_role : i \in 1..Len(evaluations)}
       IN  /\ report.total_evaluations = Len(evaluations)
           /\ DOMAIN report.by_role = roles
           /\ \A r \in roles :
                 /\ report.by_role[r].count >= 1
                 /\ report.by_role[r].count =
                        Cardinality({i \in 1..Len(evaluations) :
                                        evaluations[i].metadata.user_role = r})
           /\ SumCounts(report.by_role, roles) = report.total_evaluations

C7_Witness ==
    /\ pc = "done"
    /\ Len(evaluations) = 3
    /\ DOMAIN aggregate.items.by_role = {"admin", "user"}
    /\ aggregate.items.by_role["admin"].count = 2
    /\ aggregate.items.by_role["user"].count = 1

\* C8: every evaluation of the heuristic scorer has its four metrics within
\* [0.0, 1.0] and an overall_score that is the mean of the four rounded to
\* 3 digits.
C8_MetricsInRangeOverallIsMean ==
    \A i \in 1..Len(evaluations) :
        LET m == evaluations[i].metrics
        IN  /\ \A k \in 1..4 : m[MetricNames[k]] \in 0..1000
            /\ IsRoundedMean(evaluations[i].overall_score,
                             m.faithfulness + m.answer_relevancy
                                 + m.context_precision + m.context_recall, 4)

C8_Witness ==
    /\ pc = "scored"
    /\ Len(Get(results[1], "retrieved_documents", <<>>)) = ManyDocs
    /\ evaluations[1].metrics.context_recall = 1000
    /\ evaluations[1].metrics.context_precision = 2
    /\ evaluations[1].metrics.faithfulness = 333
    /\ evaluations[1].metrics.answer_relevancy = 1000
    /\ evaluations[1].overall_score = 584

\* C9: for every role R of the report, by_role[R].faithfulness is the mean,
\* rounded to 3 digits, of faithfulness over exactly the evaluations of the
\* records whose role is R, a record without userRole counting as "unknown".
C9_ByRoleFaithfulnessIsGroupMean ==
    (aggregate.type = "dict" /\ Len(evaluations) > 0)
    => LET report == aggregate.items
           roles == {RoleOf(results[i]) : i \in 1..Len(results)}
       IN  /\ Len(evaluations) = Len(results)
           /\ DOMAIN report.by_role = roles
           /\ \A R \in roles :
                 LET idx == {i \in 1..Len(results) : RoleOf(results[i]) = R}
                 IN  IsRoundedMean(report.by_role[R].faithfulness,
                                   SumFaithfulness(evaluations, idx),
                                   Cardinality(idx))

C9_Witness ==
    /\ pc = "done"
    /\ results = <<NoRoleRecord, AdminRecord1, UnknownRoleRecord>>
    /\ aggregate.items.by_role["unknown"].count = 2
    /\ aggregate.items.by_role["unknown"].faithfulness = 500
    /\ aggregate.items.by_role["admin"].faithfulness = 1000

\* C10 as stated: after any evaluate_all or _fallback_evaluation invocation
\* self.evaluations holds one evaluation per loaded record, in source order,
\* and self.results is as loaded.
C10_AnyInvocationLeavesOnePerRecord ==
    (evaluateCalls + fallbackCalls > 0)
    => /\ OnePerRecord
       /\ results = LoadedRecords

\* C10: once _fallback_evaluation has run (by itself, or inside evaluate_all
\* when the capability is unavailable or raises), however often, and whatever
\* is called afterwards, self.evaluations holds one evaluation per loaded
\* record, in source order; until then it is empty; self.results is always
\* as loaded.
C10_FallbackLeavesOnePerRecord ==
    /\ fallbackCalls > 0 => OnePerRecord
    /\ fallbackCalls = 0 => evaluations = <<>>
    /\ results = LoadedRecords

C10_Witness ==
    /\ fallbackCalls >= 2
    /\ evaluateCalls >= 1
    /\ results = <<AdminRecord1, NoRoleRecord>>
    /\ jsonFile.type = "dict"
    /\ Len(evaluations) = 2

====
